---- MODULE Spec2Model ----
(***************************************************************************)
(* Model of proxy.js: an Express server that caches Finnhub quotes in the  *)
(* process-wide quoteCache, refreshes a fixed list of symbols on a timer   *)
(* (updateAllStocks) and serves /api/quote, /api/quotes and /api/status  *)
(* behind helmet, an IP rate limiter and an origin allow-list.             *)
(*                                                                         *)
(* Node runs every callback to its next await without interleaving, so     *)
(* each action below is one such run: a request from its arrival through   *)
(* the middleware chain to the handler's response or first await, the      *)
(* continuation of a handler or of a refresh pass after an await, a timer  *)
(* callback, or the passing of wall-clock time.  Times are milliseconds.   *)
(***************************************************************************)
EXTENDS Integers, Sequences, FiniteSets, TLC

-----------------------------------------------------------------------------
(* Bounds of the model *)

\* how many times the clock advances in a behaviour
MaxTicks == 2
\* how many symbols of MONITORED_STOCKS a refresh pass walks
NumMonitored == 2
\* how many refresh passes can be in flight at once
MaxPasses == 2
\* how many requests one client sends under Spec, and how many on-demand
\* upstream fetches can be in flight at once
MaxRequests == 1
\* how many windows of the limiter go by under SpecHttp
MaxWindows == 1
\* how many requests beyond the limit one client sends under SpecHttp, and how
\* many requests each other client sends meanwhile
MaxOver == 1

-----------------------------------------------------------------------------
(* Program constants *)

\* rateLimit({ windowMs: 15 * 60 * 1000 })
windowMs == 900000
\* rateLimit({ max: 100 })
max == 100
\* Date.now() - timestamp < 3 * 60 * 1000 in the /api/quote handler
CACHE_TTL_MS == 180000
\* await delay(1500) in updateAllStocks
DELAY_MS == 1500
\* setInterval(updateAllStocks, 3 * 60 * 1000)
INTERVAL_MS == 180000

\* message: 'Too many requests, please try again later'
TooManyMessage == "Too many requests, please try again later"

allowedOrigins == {"https://hw-invest.web.app", "https://hw-invest.firebaseapp.com"}

StockList ==
  << "AAPL", "MSFT", "AMZN", "GOOGL", "META",
     "TSLA", "NVDA", "JPM", "JNJ", "V",
     "WMT", "KO", "PG", "NFLX", "DIS",
     "PFE", "INTC", "MA", "UNH", "VZ",
     "AMD", "PYPL", "ADBE", "CRM", "BA",
     "GE", "SBUX", "MCD", "ABNB", "UBER",
     "COST", "TGT", "F", "NKE", "T" >>

\* the list the refresher walks: the first NumMonitored symbols of the source's list
MONITORED_STOCKS == SubSeq(StockList, 1, NumMonitored)

-----------------------------------------------------------------------------
(* Input domains *)

Monitored == { MONITORED_STOCKS[i] : i \in 1..Len(MONITORED_STOCKS) }
\* a ticker outside the monitored list
Unmonitored == "IBM"
Symbols == Monitored \cup {Unmonitored}

\* req.query.symbol when the parameter is absent; ?symbol= gives ""
NoSymbol == "<undefined>"

\* req.headers.origin: absent, allow-listed, or anything else
NoOrigin == "<undefined>"
Origins == allowedOrigins \cup {NoOrigin, "https://evil.example"}

\* a response header that was not set
NoHeader == "<unset>"

IPs == {"10.0.0.1", "10.0.0.2"}

\* the numeric field c of an upstream body
Prices == {150, 151}

\* what the upstream answers to a call for symbol s: a JSON object
Payload(s, c) == [sym |-> s, c |-> c]
\* null, as fetchStockData returns it on failure
Null == [sym |-> "<null>", c |-> 0]
\* a successful response whose body is falsy (an empty body)
EmptyBody == [sym |-> "", c |-> 0]
\* an exception that leaves fetchStockData (its try/catch lets none out)
Thrown == [sym |-> "<throw>", c |-> 0]

\* outcomes of axios.get for symbol s: resolves with response.data, or rejects
AxiosOutcomes(s) ==
  { [ok |-> TRUE, data |-> Payload(s, c)] : c \in Prices }
    \cup { [ok |-> TRUE, data |-> EmptyBody], [ok |-> FALSE, data |-> Null] }

-----------------------------------------------------------------------------
(* State *)

VARIABLES
  now,         \* Date.now()
  ticks,       \* how many times the clock has advanced
  listening,   \* the app.listen callback has run
  nextTick,    \* when setInterval next fires updateAllStocks
  quoteCache,  \* [data: symbol -> entry, lastUpdated]
  store,       \* the limiter's store: [hits: ip -> count, resetTime]
  passes,      \* the updateAllStocks calls in flight, by slot
  pending,     \* the /api/quote handlers awaiting fetchStockData, by slot
  resp         \* the response sent last

vars == << now, ticks, listening, nextTick, quoteCache, store, passes, pending, resp >>

\* quoteCache.data[symbol] when the key is absent
NoEntry == [data |-> Null, timestamp |-> -1]

PassSlots == 1..MaxPasses
ReqSlots == 1..MaxRequests
\* one slot more, for the handlers that are in flight together under SpecHung
RaceSlots == 1..(MaxRequests + 1)

\* a slot no pass uses.  Of a pass in flight: i, the index of its symbol; pc,
\* whether it awaits the fetch or the delay; due, when the delay ends; and its
\* history: when it started, when it started its latest upstream call, the
\* upstream calls it made, the entries it wrote and the symbols whose fetch
\* failed
IdlePass == [pc |-> "idle", i |-> 0, due |-> 0, started |-> 0, calledAt |-> 0,
             calls |-> << >>, wrote |-> {}, failed |-> {}]
\* a slot no request uses.  Of a handler in flight: req.query.symbol, the
\* symbol of its upstream call, req.headers.origin and the header the CORS
\* middleware set on res
IdleReq == [pc |-> "idle", symbol |-> NoSymbol, url |-> NoSymbol,
            origin |-> NoOrigin, acao |-> NoHeader]

\* a response: its status, its body, its Access-Control-Allow-Origin header and
\* the code that sent it
NoResp == [status |-> 0, body |-> Null, acao |-> NoHeader, from |-> "none"]

Init ==
  /\ now = 0
  /\ ticks = 0
  /\ listening = FALSE
  /\ nextTick = 0
  /\ quoteCache = [data |-> [s \in Symbols |-> NoEntry], lastUpdated |-> 0]
  /\ store = [hits |-> [ip \in IPs |-> 0], resetTime |-> windowMs]
  /\ passes = [p \in PassSlots |-> IdlePass]
  /\ pending = [r \in RaceSlots |-> IdleReq]
  /\ resp = NoResp

-----------------------------------------------------------------------------
(* Helpers *)

\* if (data): null and an empty body are falsy, a JSON object is truthy
Truthy(d) == d \notin {Null, EmptyBody}

\* mutant: a failed call yields a placeholder quote
fetchStockData_placeholder(outcome) ==
  IF outcome.ok THEN outcome.data ELSE Payload("<none>", 0)

\* mutant: fetchStockData without its try/catch
fetchStockData_rethrows(outcome) == IF outcome.ok THEN outcome.data ELSE Thrown

\* fetchStockData: response.data when axios.get resolves, null when it throws
fetchStockData(outcome) == IF outcome.ok THEN outcome.data ELSE Null

\* mutant: the URL names a fixed symbol
UpstreamUrl_fixed(symbol) == StockList[1]

\* the symbol in the URL of the upstream call: quote?symbol=${symbol}
UpstreamUrl(symbol) == symbol

\* quoteCache.data[symbol]
Entry(symbol) ==
  IF symbol \in DOMAIN quoteCache.data THEN quoteCache.data[symbol] ELSE NoEntry

\* mutant: a write evicts the entries that are no longer fresh
Put_evictsStale(symbol, data) ==
  [quoteCache EXCEPT !.data =
     [s \in DOMAIN quoteCache.data |->
        IF s = symbol THEN [data |-> data, timestamp |-> now]
        ELSE IF now - quoteCache.data[s].timestamp < CACHE_TTL_MS THEN quoteCache.data[s]
        ELSE NoEntry]]

\* mutant: an overwritten entry keeps its old payload
Put_firstPayloadWins(symbol, data) ==
  [quoteCache EXCEPT !.data[symbol] =
     [data |-> IF @ = NoEntry THEN data ELSE @.data, timestamp |-> now]]

\* mutant: an overwritten entry keeps its old timestamp
Put_keepsTimestamp(symbol, data) ==
  [quoteCache EXCEPT !.data[symbol] =
     [data |-> data, timestamp |-> IF @ = NoEntry THEN now ELSE @.timestamp]]

\* quoteCache.data[symbol] = { data: data, timestamp: Date.now() }
Put(symbol, data) ==
  [quoteCache EXCEPT !.data[symbol] = [data |-> data, timestamp |-> now]]

\* mutant: no entry counts as fresh
Fresh_never(symbol) == FALSE

\* mutant: <= in place of <
Fresh_inclusive(symbol) ==
  /\ Entry(symbol) # NoEntry
  /\ now - Entry(symbol).timestamp <= CACHE_TTL_MS

\* quoteCache.data[symbol] && Date.now() - quoteCache.data[symbol].timestamp < 3 * 60 * 1000
Fresh(symbol) ==
  /\ Entry(symbol) # NoEntry
  /\ now - Entry(symbol).timestamp < CACHE_TTL_MS

\* mutant: the handler does not check the parameter
MissingSymbol_unchecked(symbol) == FALSE

\* if (!symbol)
MissingSymbol(symbol) == symbol \in {NoSymbol, ""}

\* mutant: every Origin header is reflected
CorsHeader_reflectsAny(origin) == IF origin # NoOrigin THEN origin ELSE NoHeader

\* if (allowedOrigins.includes(origin)) res.header('Access-Control-Allow-Origin', origin)
CorsHeader(origin) == IF origin \in allowedOrigins THEN origin ELSE NoHeader

\* the limiter's store after it counted one more request of ip: the counts
\* of every client start again from 0 once the window has run out
LimiterHit(ip) ==
  LET s0 == IF now >= store.resetTime
            THEN [hits |-> [c \in IPs |-> 0],
                  resetTime |-> store.resetTime
                                  + windowMs * (((now - store.resetTime) \div windowMs) + 1)]
            ELSE store
  IN [s0 EXCEPT !.hits[ip] = @ + 1]

\* mutant: >= in place of >
Limited_inclusive(count) == count >= max

\* the limiter rejects a request once its client's count exceeds max
Limited(count) == count > max

\* the client whose requests the model follows up to the limit and beyond
Client == "10.0.0.1"

\* mutant: no request is handled while a task waits for its upstream call
MayRequest_blocking(cap, ip) ==
  /\ listening
  /\ store.hits[ip] < (IF ip = Client THEN cap ELSE MaxOver)
  /\ \A p \in PassSlots : passes[p].pc # "fetch"
  /\ \A r \in RaceSlots : pending[r].pc # "fetch"

\* the bound on the requests the model lets client ip send in a window of the
\* limiter: at most cap for Client, at most MaxOver for every other client
MayRequest(cap, ip) ==
  /\ listening
  /\ store.hits[ip] < (IF ip = Client THEN cap ELSE MaxOver)

Response(status, body, acao, from) ==
  [status |-> status, body |-> body, acao |-> acao, from |-> from]

\* res.status(...).json({ error: ... })
ErrorBody(message) == [error |-> message]

\* the limiter's response: it ends the request before the CORS middleware runs
TooMany == Response(429, [message |-> TooManyMessage], NoHeader, "limiter")

\* Express's answer when no route matches
CannotGet(acao) == Response(404, [html |-> "Cannot GET"], acao, "express")

\* mutant: only the fresh entries are listed
QuotesBody_freshOnly ==
  [lastUpdated |-> quoteCache.lastUpdated,
   data |-> [s \in { x \in DOMAIN quoteCache.data : Fresh(x) } |-> quoteCache.data[s].data]]

\* the body of /api/quotes: for (const symbol in quoteCache.data) result.data[symbol] = ...
QuotesBody ==
  [lastUpdated |-> quoteCache.lastUpdated,
   data |-> [s \in { x \in DOMAIN quoteCache.data : quoteCache.data[x] # NoEntry }
               |-> quoteCache.data[s].data]]

\* the body of /api/status, but for uptime: process.uptime() reads no state of
\* the program
StatusBody ==
  [status |-> "online",
   lastUpdated |-> quoteCache.lastUpdated,
   stocksTracked |-> Cardinality({ x \in DOMAIN quoteCache.data : quoteCache.data[x] # NoEntry })]

FreeReqSlots(slots) == { r \in slots : pending[r].pc = "idle" }
FreePassSlots == { p \in PassSlots : passes[p].pc = "idle" }
Lowest(S) == CHOOSE x \in S : \A y \in S : x <= y

-----------------------------------------------------------------------------
(* The clock *)

\* the instants at which a timer is due: the interval and the delays of the passes
Due == {nextTick} \cup { passes[p].due : p \in { q \in PassSlots : passes[q].pc = "delay" } }

\* the instants at which a cache entry is fresh for the last millisecond, and
\* at which it has turned stale
Expiry ==
  UNION { {quoteCache.data[s].timestamp + CACHE_TTL_MS - 1,
           quoteCache.data[s].timestamp + CACHE_TTL_MS} :
          s \in { x \in Symbols : quoteCache.data[x] # NoEntry } }

\* time passes until instant t, one at which a timer is due or an entry
\* expires; it never passes the instant at which a timer is due, whose
\* callback runs first
Tick(t) ==
  /\ listening
  /\ ticks < MaxTicks
  /\ t \in Due \cup Expiry
  /\ t > now
  /\ \A d \in Due : t <= d
  /\ now' = t
  /\ ticks' = ticks + 1
  /\ UNCHANGED << listening, nextTick, quoteCache, store, passes, pending, resp >>

\* how far the clock runs under SpecHung: to the tick of the interval and
\* through the pass that tick starts
Horizon == INTERVAL_MS + (NumMonitored + 1) * DELAY_MS

\* time passes until instant t, the next at which a timer is due
TimerTick(t) ==
  /\ listening
  /\ t \in Due
  /\ t > now
  /\ t <= Horizon
  /\ \A d \in Due : t <= d
  /\ now' = t
  /\ UNCHANGED << ticks, listening, nextTick, quoteCache, store, passes, pending, resp >>

\* a whole window of the limiter goes by
WindowElapse ==
  /\ listening
  /\ now < MaxWindows * windowMs
  /\ now' = now + windowMs
  /\ UNCHANGED << ticks, listening, nextTick, quoteCache, store, passes, pending, resp >>

-----------------------------------------------------------------------------
(* updateAllStocks and its scheduling *)

\* the synchronous start of updateAllStocks: up to the await of the first fetch
StartPass(p) ==
  [passes EXCEPT ![p] = [pc |-> "fetch", i |-> 1, due |-> 0, started |-> now,
                         calledAt |-> now,
                         calls |-> << UpstreamUrl(MONITORED_STOCKS[1]) >>,
                         wrote |-> {}, failed |-> {}]]

\* the app.listen callback: the initial update and setInterval
Listen ==
  /\ ~listening
  /\ listening' = TRUE
  /\ passes' = StartPass(Lowest(FreePassSlots))
  /\ nextTick' = now + INTERVAL_MS
  /\ UNCHANGED << now, ticks, quoteCache, store, pending, resp >>

\* mutant: a tick that finds a pass running starts none
IntervalFire_exclusive ==
  /\ listening
  /\ now >= nextTick
  /\ FreePassSlots # {}
  /\ passes' = IF FreePassSlots = PassSlots THEN StartPass(Lowest(FreePassSlots)) ELSE passes
  /\ nextTick' = now + INTERVAL_MS
  /\ UNCHANGED << now, ticks, listening, quoteCache, store, pending, resp >>

\* the interval timer fires updateAllStocks, whether or not a pass is running
IntervalFire ==
  /\ listening
  /\ now >= nextTick
  /\ FreePassSlots # {}
  /\ passes' = StartPass(Lowest(FreePassSlots))
  /\ nextTick' = now + INTERVAL_MS
  /\ UNCHANGED << now, ticks, listening, quoteCache, store, pending, resp >>

\* mutant: a failed fetch ends the pass
AfterFetch_abortsOnFailure(pass, symbol, data) ==
  IF Truthy(data)
  THEN [pass EXCEPT !.pc = "delay", !.due = now + DELAY_MS,
                    !.wrote = @ \cup {[symbol |-> symbol, data |-> data, timestamp |-> now]}]
  ELSE IdlePass

\* mutant: no delay after a failed fetch
AfterFetch_noDelayOnFailure(pass, symbol, data) ==
  IF Truthy(data)
  THEN [pass EXCEPT !.pc = "delay", !.due = now + DELAY_MS,
                    !.wrote = @ \cup {[symbol |-> symbol, data |-> data, timestamp |-> now]}]
  ELSE [pass EXCEPT !.pc = "delay", !.due = now, !.failed = @ \cup {symbol}]

\* the body of the loop from the fetch's result to await delay(1500): the
\* pass after it handled data, the result of fetchStockData(symbol)
AfterFetch(pass, symbol, data) ==
  IF Truthy(data)
  THEN [pass EXCEPT !.pc = "delay", !.due = now + DELAY_MS,
                    !.wrote = @ \cup {[symbol |-> symbol, data |-> data, timestamp |-> now]}]
  ELSE [pass EXCEPT !.pc = "delay", !.due = now + DELAY_MS, !.failed = @ \cup {symbol}]

\* for (const symbol of MONITORED_STOCKS): the pass goes on to the fetch of
\* its next symbol, or has walked the list
NextSymbol(pass) ==
  IF pass.i < Len(MONITORED_STOCKS)
  THEN [pass EXCEPT !.pc = "fetch", !.i = @ + 1, !.calledAt = now,
                    !.calls = Append(@, UpstreamUrl(MONITORED_STOCKS[pass.i + 1]))]
  ELSE IdlePass

\* mutant: lastUpdated is never written
Touch_never(cache, pass) == cache

\* mutant: lastUpdated is written only by a pass that wrote an entry
Touch_ifWrote(cache, pass) ==
  IF pass.i < Len(MONITORED_STOCKS) \/ pass.wrote = {}
  THEN cache
  ELSE [cache EXCEPT !.lastUpdated = now]

\* the cache once the pass has moved on from its symbol i: after the last
\* symbol, quoteCache.lastUpdated = Date.now()
Touch(cache, pass) ==
  IF pass.i < Len(MONITORED_STOCKS) THEN cache ELSE [cache EXCEPT !.lastUpdated = now]

\* updateAllStocks resumes after await fetchStockData(symbol) and runs up to
\* await delay(1500); an exception would skip the delay (catch (err))
PassFetchReturn(p, outcome) ==
  LET symbol == MONITORED_STOCKS[passes[p].i]
      data == fetchStockData(outcome)
  IN /\ passes[p].pc = "fetch"
     /\ outcome \in AxiosOutcomes(passes[p].calls[passes[p].i])
     /\ IF data = Thrown
        THEN /\ passes' = [passes EXCEPT ![p] =
                             NextSymbol([passes[p] EXCEPT !.failed = @ \cup {symbol}])]
             /\ quoteCache' = Touch(quoteCache, passes[p])
        ELSE /\ passes' = [passes EXCEPT ![p] = AfterFetch(passes[p], symbol, data)]
             /\ quoteCache' = IF Truthy(data) THEN Put(symbol, data) ELSE quoteCache
     /\ UNCHANGED << now, ticks, listening, nextTick, store, pending, resp >>

\* updateAllStocks resumes after await delay(1500)
PassDelayDone(p) ==
  /\ passes[p].pc = "delay"
  /\ now >= passes[p].due
  /\ passes' = [passes EXCEPT ![p] = NextSymbol(passes[p])]
  /\ quoteCache' = Touch(quoteCache, passes[p])
  /\ UNCHANGED << now, ticks, listening, nextTick, store, pending, resp >>

-----------------------------------------------------------------------------
(* The routes, each behind helmet, the limiter (under /api/) and the CORS check *)

\* GET /api/quote, from the request's arrival to its response or to the
\* await of fetchStockData(symbol); slots bounds the handlers in flight
QuoteRequest(cap, slots, ip, origin, symbol) ==
  /\ MayRequest(cap, ip)
  /\ store' = LimiterHit(ip)
  /\ IF Limited(store'.hits[ip])
     THEN /\ resp' = TooMany
          /\ UNCHANGED << quoteCache, pending >>
     ELSE IF MissingSymbol(symbol)
     THEN /\ resp' = Response(400, ErrorBody("Symbol parameter is required"),
                              CorsHeader(origin), "handler")
          /\ UNCHANGED << quoteCache, pending >>
     ELSE IF Fresh(symbol)
     THEN /\ resp' = Response(200, Entry(symbol).data, CorsHeader(origin), "cache")
          /\ UNCHANGED << quoteCache, pending >>
     ELSE /\ FreeReqSlots(slots) # {}
          /\ pending' = [pending EXCEPT ![Lowest(FreeReqSlots(slots))] =
                           [pc |-> "fetch", symbol |-> symbol, url |-> UpstreamUrl(symbol),
                            origin |-> origin, acao |-> CorsHeader(origin)]]
          /\ UNCHANGED << quoteCache, resp >>
  /\ UNCHANGED << now, ticks, listening, nextTick, passes >>

\* mutant: the handler sends nothing when the fetch brought no payload
QuoteFetchReturn_silentWithoutData(r, outcome) ==
  LET symbol == pending[r].symbol
      data == fetchStockData(outcome)
  IN /\ pending[r].pc = "fetch"
     /\ outcome \in AxiosOutcomes(pending[r].url)
     /\ IF Truthy(data)
        THEN /\ quoteCache' = Put(symbol, data)
             /\ resp' = Response(200, data, pending[r].acao, "upstream")
             /\ pending' = [pending EXCEPT ![r] = IdleReq]
        ELSE /\ quoteCache' = quoteCache
             /\ resp' = resp
             /\ pending' = [pending EXCEPT ![r].pc = "returned"]
     /\ UNCHANGED << now, ticks, listening, nextTick, store, passes >>

\* the /api/quote handler resumes after await fetchStockData(symbol)
QuoteFetchReturn(r, outcome) ==
  LET symbol == pending[r].symbol
      data == fetchStockData(outcome)
  IN /\ pending[r].pc = "fetch"
     /\ outcome \in AxiosOutcomes(pending[r].url)
     /\ IF data = Thrown
        THEN /\ quoteCache' = quoteCache
             /\ resp' = Response(500, ErrorBody("Failed to fetch data"), pending[r].acao,
                                 "upstream")
        ELSE IF Truthy(data)
        THEN /\ quoteCache' = Put(symbol, data)
             /\ resp' = Response(200, data, pending[r].acao, "upstream")
        ELSE /\ quoteCache' = quoteCache
             /\ resp' = Response(404, ErrorBody("Symbol data not available"),
                                 pending[r].acao, "upstream")
     /\ pending' = [pending EXCEPT ![r] = IdleReq]
     /\ UNCHANGED << now, ticks, listening, nextTick, store, passes >>

\* GET /api/quotes
QuotesRequest(cap, ip, origin) ==
  /\ MayRequest(cap, ip)
  /\ store' = LimiterHit(ip)
  /\ resp' = IF Limited(store'.hits[ip])
             THEN TooMany
             ELSE Response(200, QuotesBody, CorsHeader(origin), "quotes")
  /\ UNCHANGED << now, ticks, listening, nextTick, quoteCache, passes, pending >>

\* GET /api/status
StatusRequest(cap, ip, origin) ==
  /\ MayRequest(cap, ip)
  /\ store' = LimiterHit(ip)
  /\ resp' = IF Limited(store'.hits[ip])
             THEN TooMany
             ELSE Response(200, StatusBody, CorsHeader(origin), "status")
  /\ UNCHANGED << now, ticks, listening, nextTick, quoteCache, passes, pending >>

\* a path under /api/ that no route matches: counted by the limiter, then 404
ApiNotFound(cap, ip, origin) ==
  /\ MayRequest(cap, ip)
  /\ store' = LimiterHit(ip)
  /\ resp' = IF Limited(store'.hits[ip]) THEN TooMany ELSE CannotGet(CorsHeader(origin))
  /\ UNCHANGED << now, ticks, listening, nextTick, quoteCache, passes, pending >>

\* a path outside /api/: the limiter is not mounted there
NotFound(origin) ==
  /\ listening
  /\ resp' = CannotGet(CorsHeader(origin))
  /\ UNCHANGED << now, ticks, listening, nextTick, quoteCache, store, passes, pending >>

-----------------------------------------------------------------------------
(* Specifications *)

\* the Origin header of the requests under Spec
Browser == "https://hw-invest.web.app"
\* the symbols the client asks for under Spec: one the refresher monitors, one it does not
Asked == {MONITORED_STOCKS[1], Unmonitored}
\* under Spec the refresher's upstream calls return price 150 and the
\* on-demand calls price 151, or they fail
PassOutcomes(s) == AxiosOutcomes(s) \ {[ok |-> TRUE, data |-> Payload(s, 151)]}
QuoteOutcomes(s) == AxiosOutcomes(s) \ {[ok |-> TRUE, data |-> Payload(s, 150)]}

\* The refresher, the scheduler and the /api/quote route, with one client that
\* stays far below the rate limit.
Next ==
  \/ \E t \in Due \cup Expiry : Tick(t)
  \/ Listen
  \/ IntervalFire
  \/ \E p \in PassSlots : \E s \in Monitored : \E outcome \in PassOutcomes(s) :
       PassFetchReturn(p, outcome)
  \/ \E p \in PassSlots : PassDelayDone(p)
  \/ \E s \in Asked : QuoteRequest(MaxRequests, ReqSlots, Client, Browser, s)
  \/ \E r \in ReqSlots : \E s \in Asked : \E outcome \in QuoteOutcomes(s) :
       QuoteFetchReturn(r, outcome)

Spec == Init /\ [][Next]_vars

\* the requests for /api/quote under SpecHttp: without a symbol, or for one ticker
HttpSymbols == {NoSymbol, Unmonitored}
\* the outcomes of the upstream calls under SpecHttp
HttpOutcomes == {[ok |-> TRUE, data |-> Payload(Unmonitored, 151)], [ok |-> FALSE, data |-> Null]}
\* how many requests a client sends in one window under SpecHttp
Burst == max + MaxOver

\* The middleware chain and every route: Client sends up to Burst requests in
\* a window of the limiter, with every Origin header and at most one on-demand
\* fetch in flight, while the other clients ask for /api/status; the initial
\* refresh pass stays suspended on its first upstream call.
NextHttp ==
  \/ WindowElapse
  \/ Listen
  \/ \E o \in Origins : \E s \in HttpSymbols : QuoteRequest(Burst, {1}, Client, o, s)
  \/ \E outcome \in HttpOutcomes : QuoteFetchReturn(1, outcome)
  \/ \E o \in Origins : QuotesRequest(Burst, Client, o)
  \/ \E ip \in IPs : \E o \in IF ip = Client THEN Origins ELSE {NoOrigin} :
       StatusRequest(Burst, ip, o)
  \/ \E o \in Origins : ApiNotFound(Burst, Client, o)
  \/ \E o \in Origins : NotFound(o)

SpecHttp == Init /\ [][NextHttp]_vars

\* the symbol the clients ask for under SpecHung: the first the refresher fetches
Raced == MONITORED_STOCKS[1]
\* the outcomes of the upstream calls under SpecHung: the refresher's calls
\* return price 150 and the on-demand calls price 151, or they fail
HungPassOutcomes(s) == {[ok |-> TRUE, data |-> Payload(s, 150)], [ok |-> FALSE, data |-> Null]}
HungQuoteOutcomes == {[ok |-> TRUE, data |-> Payload(Raced, 151)], [ok |-> FALSE, data |-> Null]}

\* how many requests the client sends under SpecHung
HungRequests == MaxRequests + 2

\* Tasks in flight together: the refresher and the scheduler up to the pass of
\* the first tick, and one client that sends HungRequests requests, to
\* /api/quote for one monitored symbol (with up to MaxRequests + 1 handlers in
\* flight), to /api/quotes or to /api/status.  The first upstream call of the
\* initial pass is never answered, and any other call may stay unanswered.
NextHung ==
  \/ \E t \in Due : TimerTick(t)
  \/ Listen
  \/ IntervalFire
  \/ \E p \in PassSlots \ {1} : \E s \in Monitored : \E outcome \in HungPassOutcomes(s) :
       PassFetchReturn(p, outcome)
  \/ \E p \in PassSlots : PassDelayDone(p)
  \/ QuoteRequest(HungRequests, RaceSlots, Client, Browser, Raced)
  \/ \E r \in RaceSlots : \E outcome \in HungQuoteOutcomes : QuoteFetchReturn(r, outcome)
  \/ QuotesRequest(HungRequests, Client, Browser)
  \/ StatusRequest(HungRequests, Client, Browser)

SpecHung == Init /\ [][NextHung]_vars

\* SpecHung when every upstream call of an /api/quote handler returns in the
\* end, with a payload or with a failure; the handler then resumes, as the
\* event loop runs every callback that is due
SpecReturns ==
  /\ Init
  /\ [][NextHung]_vars
  /\ \A r \in RaceSlots :
       WF_vars(\E outcome \in HungQuoteOutcomes : QuoteFetchReturn(r, outcome))

-----------------------------------------------------------------------------
(* The /api/quote route: claims C1 to C4, under Spec *)

\* a step in which the route handler of /api/quote runs for symbol s
QuoteArrives(s) == QuoteRequest(MaxRequests, ReqSlots, Client, Browser, s)

\* the cache holds an entry for s that is less than 3 minutes old
YoungEntry(s) ==
  /\ quoteCache.data[s] # NoEntry
  /\ now - quoteCache.data[s].timestamp < 180000

\* some slot starts an upstream call for s in this step
CallsUpstream(s) ==
  \E r \in ReqSlots :
    /\ pending[r].pc = "idle"
    /\ pending'[r].pc = "fetch"
    /\ pending'[r].url = s

\* C1: a request for S that the handler receives while the cache holds an entry
\* for S less than 3 minutes old is answered 200 with that entry's payload,
\* starts no upstream call and leaves the cache as it is; with an entry that is
\* 3 minutes old or older the handler does not answer from the cache.
C1_FreshEntryServed ==
  [][\A s \in Symbols :
       QuoteArrives(s) =>
         IF YoungEntry(s)
         THEN /\ resp' = Response(200, quoteCache.data[s].data, Browser, "cache")
              /\ pending' = pending
              /\ passes' = passes
              /\ quoteCache' = quoteCache
         ELSE /\ resp' = resp
              /\ pending' # pending]_vars

\* C1 witness: the handler answered from an entry in its last fresh millisecond
C1_Witness ==
  /\ resp.status = 200
  /\ resp.from = "cache"
  /\ \E s \in Symbols :
       /\ quoteCache.data[s] # NoEntry
       /\ quoteCache.data[s].data = resp.body
       /\ now - quoteCache.data[s].timestamp = CACHE_TTL_MS - 1

\* C2, as claimed: every request for a symbol S, monitored or not, starts an
\* upstream call for S.
C2_AlwaysFetches ==
  [][\A s \in Symbols : QuoteArrives(s) => CallsUpstream(s)]_vars

\* C2, amended: every request for a symbol S, monitored or not, for which the
\* cache holds no entry less than 3 minutes old starts an upstream call for S,
\* and no response is sent before that call returns.
C2_FetchesUnlessFresh ==
  [][\A s \in Symbols :
       QuoteArrives(s) /\ ~YoungEntry(s) => CallsUpstream(s) /\ resp' = resp]_vars

\* C2 witness: an upstream call in flight for a symbol whose entry is exactly
\* 3 minutes old
C2_Witness ==
  \E r \in ReqSlots :
    /\ pending[r].pc = "fetch"
    /\ pending[r].url = pending[r].symbol
    /\ quoteCache.data[pending[r].symbol] # NoEntry
    /\ now - quoteCache.data[pending[r].symbol].timestamp = CACHE_TTL_MS

\* C3: when the upstream call of an on-demand request for S returns payload P,
\* the request is answered 200 with P, and at that moment the cache entry for
\* S holds P with the time of the write, so the entry is fresh.
C3_FetchedPayloadServedAndCached ==
  [][\A r \in ReqSlots : \A s \in Symbols : \A c \in Prices :
       QuoteFetchReturn(r, [ok |-> TRUE, data |-> Payload(s, c)]) =>
         /\ resp' = Response(200, Payload(s, c), pending[r].acao, "upstream")
         /\ quoteCache'.data[pending[r].symbol] = [data |-> Payload(s, c), timestamp |-> now']
         /\ now' - quoteCache'.data[pending[r].symbol].timestamp < 180000]_vars

\* C3 witness: a response from upstream, sent after the clock moved, whose
\* payload is the cache's entry written at this instant
C3_Witness ==
  /\ resp.status = 200
  /\ resp.from = "upstream"
  /\ now > 0
  /\ \E s \in Symbols : quoteCache.data[s] = [data |-> resp.body, timestamp |-> now]

\* C4: when the upstream call of an on-demand request for S fails, the request
\* is answered 404 with an error body (never 500: no exception leaves
\* fetchStockData), and the cache, its entry for S and lastUpdated included, is
\* as it was before the result was handled.
C4_FailedFetchIs404 ==
  [][\A r \in ReqSlots :
       QuoteFetchReturn(r, [ok |-> FALSE, data |-> Null]) =>
         /\ resp'.status = 404
         /\ resp'.body = ErrorBody("Symbol data not available")
         /\ resp'.from = "upstream"
         /\ quoteCache' = quoteCache
         /\ pending'[r] = IdleReq]_vars

\* C4 witness: a 404 from the on-demand path while the cache holds a stale
\* entry for a monitored symbol
C4_Witness ==
  /\ resp.status = 404
  /\ resp.from = "upstream"
  /\ \E s \in Asked :
       /\ quoteCache.data[s] # NoEntry
       /\ now - quoteCache.data[s].timestamp >= CACHE_TTL_MS

-----------------------------------------------------------------------------
(* The refresher: claims C6 and C7, under Spec *)

\* pass p ends in this step
Completes(p) == passes[p].pc # "idle" /\ passes'[p].pc = "idle"

\* a fetch of pass p that fails: axios.get rejects, or the body is empty
FailedFetch(p) ==
  \/ PassFetchReturn(p, [ok |-> FALSE, data |-> Null])
  \/ PassFetchReturn(p, [ok |-> TRUE, data |-> EmptyBody])

\* C6, as claimed: when a pass over the N symbols ends with K fetches
\* succeeded and N-K failed, the cache holds for each of the K symbols the
\* payload and timestamp that pass wrote, the entries of the failed symbols
\* are absent or from before the pass, and lastUpdated is at or after the
\* pass's last write, whatever ran meanwhile.
C6_EntriesAreThePasss ==
  [][\A p \in PassSlots :
       Completes(p) =>
         /\ Cardinality(passes[p].wrote) + Cardinality(passes[p].failed)
              = Len(MONITORED_STOCKS)
         /\ \A w \in passes[p].wrote :
              /\ quoteCache'.data[w.symbol] = [data |-> w.data, timestamp |-> w.timestamp]
              /\ quoteCache'.lastUpdated >= w.timestamp
         /\ \A f \in passes[p].failed :
              \/ quoteCache'.data[f] = NoEntry
              \/ quoteCache'.data[f].timestamp <= passes[p].started]_vars

\* C6, amended: when a pass over the N symbols ends with K fetches succeeded
\* and N-K failed, the cache holds for each of the K symbols the entry the pass
\* wrote or one written at or after it (another task may have overwritten it),
\* each failed fetch left the whole cache as it was, and lastUpdated is the
\* time the pass ended, at or after each of its writes.
C6_EntriesAreThePasssOrLater ==
  [][\A p \in PassSlots :
       /\ Completes(p) =>
            /\ Cardinality(passes[p].wrote) + Cardinality(passes[p].failed)
                 = Len(MONITORED_STOCKS)
            /\ \A w \in passes[p].wrote :
                 /\ w.symbol \notin passes[p].failed
                 /\ quoteCache'.data[w.symbol] # NoEntry
                 /\ quoteCache'.data[w.symbol].timestamp >= w.timestamp
                 /\ quoteCache'.lastUpdated >= w.timestamp
            /\ quoteCache'.lastUpdated = now'
       /\ FailedFetch(p) =>
            /\ quoteCache' = quoteCache
            /\ passes'[p].wrote = passes[p].wrote
            /\ MONITORED_STOCKS[passes[p].i] \in passes'[p].failed]_vars

\* C6 witness: a pass is about to end whose first fetch succeeded, whose last
\* fetch failed, and whose entry an on-demand request has overwritten since
C6_Witness ==
  \E p \in PassSlots :
    /\ passes[p].pc = "delay"
    /\ passes[p].i = Len(MONITORED_STOCKS)
    /\ MONITORED_STOCKS[Len(MONITORED_STOCKS)] \in passes[p].failed
    /\ \E w \in passes[p].wrote :
         /\ w.symbol = MONITORED_STOCKS[1]
         /\ quoteCache.data[w.symbol].data = Payload(w.symbol, 151)
         /\ quoteCache.data[w.symbol].timestamp >= w.timestamp

\* C7: every pass makes exactly one upstream call for each symbol of the
\* monitored list, in list order: after each fetch, failed or not, the pass
\* goes on to its delay, and it ends only when it has called for every symbol.
C7_EverySymbolFetchedInOrder ==
  [][\A p \in PassSlots :
       /\ Completes(p) => passes[p].calls = MONITORED_STOCKS
       /\ passes'[p].pc # "idle" =>
            /\ passes'[p].calls = SubSeq(MONITORED_STOCKS, 1, passes'[p].i)
            /\ Len(passes'[p].calls) <= Len(passes[p].calls) + 1 \/ passes[p].pc = "idle"
       /\ passes[p].pc = "fetch" /\ passes'[p] # passes[p] =>
            /\ passes'[p].pc = "delay"
            /\ passes'[p].calls = passes[p].calls]_vars

\* C7 witness: a pass has ended whose first fetch failed and whose last fetch
\* succeeded
C7_Witness ==
  /\ quoteCache.lastUpdated > 0
  /\ quoteCache.data[MONITORED_STOCKS[1]] = NoEntry
  /\ quoteCache.data[MONITORED_STOCKS[Len(MONITORED_STOCKS)]]
       = [data |-> Payload(MONITORED_STOCKS[Len(MONITORED_STOCKS)], 150),
          timestamp |-> quoteCache.lastUpdated - DELAY_MS]

-----------------------------------------------------------------------------
(* The middleware chain: claims C5, C8, C9 and C10, under SpecHttp *)

\* a step in which a request of client ip with Origin header o gets its
\* response at once
Answers(ip, o) ==
  \/ \E s \in HttpSymbols : QuoteRequest(Burst, {1}, ip, o, s) /\ pending' = pending
  \/ QuotesRequest(Burst, ip, o)
  \/ StatusRequest(Burst, ip, o)
  \/ ApiNotFound(Burst, ip, o)
  \/ NotFound(o)

\* a step in which a request of client ip with Origin header o is suspended
\* on its upstream call
Suspends(ip, o) ==
  \E s \in HttpSymbols : QuoteRequest(Burst, {1}, ip, o, s) /\ pending' # pending

\* a step in which the suspended request, sent with Origin header o, gets its
\* response
AnswersLater(o) ==
  /\ pending[1].origin = o
  /\ \E outcome \in HttpOutcomes : QuoteFetchReturn(1, outcome)

\* a step in which a request for /api/quote without a symbol arrives
NoSymbolArrives(o) == QuoteRequest(Burst, {1}, Client, o, NoSymbol)

\* C5, as claimed: a GET /api/quote request with no symbol parameter always
\* returns 400, whatever the cache holds, whatever is in flight and whatever
\* requests came before.
C5_NoSymbolAlways400 ==
  [][\A o \in Origins : NoSymbolArrives(o) => resp'.status = 400]_vars

\* C5, amended: a GET /api/quote request with no symbol parameter returns 400
\* with the "Symbol parameter is required" error, without touching the cache or
\* calling upstream, whenever it is one of the first 100 requests of its client
\* in the limiter's window; beyond them it gets the 429 of the limiter.
C5_NoSymbol400UnlessLimited ==
  [][\A o \in Origins :
       NoSymbolArrives(o) =>
         /\ quoteCache' = quoteCache
         /\ pending' = pending
         /\ IF store'.hits[Client] <= 100
            THEN /\ resp'.status = 400
                 /\ resp'.body = [error |-> "Symbol parameter is required"]
            ELSE resp'.status = 429]_vars

\* C5 witness: a 400 for a request without a symbol, sent while another
\* request is suspended on its upstream call and the cache holds an entry
C5_Witness ==
  /\ resp.status = 400
  /\ pending[1].pc = "fetch"
  /\ quoteCache.data[Unmonitored] # NoEntry
  /\ store.hits[Client] > 2

\* a step in which the limiter counts a request of client ip
Counted(ip) == store' = LimiterHit(ip)

\* C8: of the requests a client IP sends to routes under /api/ within one
\* window of the limiter, requests 1 to 100 reach their route handler (which
\* answers or suspends on its upstream call) and the 101st gets the rate-limit
\* response, without touching the cache or calling upstream.
C8_First100PassThe101stIsRejected ==
  [][\A ip \in IPs :
       Counted(ip) =>
         /\ store'.hits[ip] <= 100 =>
              \/ pending' # pending /\ pending'[1].pc = "fetch" /\ resp' = resp
              \/ pending' = pending /\ resp'.from \in {"handler", "cache", "quotes", "status", "express"}
         /\ store'.hits[ip] = 101 =>
              /\ resp' = [status |-> 429,
                          body |-> [message |-> "Too many requests, please try again later"],
                          acao |-> NoHeader, from |-> "limiter"]
              /\ quoteCache' = quoteCache
              /\ pending' = pending]_vars

\* C8 witness: in the limiter's second window, the 101st request of one
\* client has just been rejected while another client has been served
C8_Witness ==
  /\ resp = TooMany
  /\ now >= windowMs
  /\ store.resetTime > now
  /\ store.hits[Client] = 101
  /\ \E ip \in IPs \ {Client} : store.hits[ip] = 1

\* C9, as claimed: every request whose Origin header is one of the two
\* allow-listed origins gets a response that carries
\* Access-Control-Allow-Origin set to that origin, on every route and for every
\* outcome: a step whose response lacks it answers no such request.
C9_AllowedOriginAlwaysReflected ==
  [][\A o \in allowedOrigins :
       resp'.acao # o => /\ \A ip \in IPs : ~Answers(ip, o)
                          /\ ~AnswersLater(o)]_vars

\* Answers(ip, o), decided by the code that sent the response of the step
AnswersAs(ip, o) ==
  CASE resp'.from = "quotes" -> QuotesRequest(Burst, ip, o)
    [] resp'.from = "status" -> StatusRequest(Burst, ip, o)
    [] resp'.from = "express" -> ApiNotFound(Burst, ip, o) \/ NotFound(o)
    [] resp'.from \in {"handler", "cache"} ->
         \E s \in HttpSymbols : QuoteRequest(Burst, {1}, ip, o, s) /\ pending' = pending
    [] OTHER -> Answers(ip, o)

\* C10: no response to a request whose Origin header is absent or not one of
\* the two allow-listed origins carries Access-Control-Allow-Origin, on every
\* route and for every outcome, the response of a suspended request included:
\* a step whose response carries the header answers no such request, at once
\* (the handlers in flight stay as they are) or after its upstream call, and a
\* request that is suspended with the header set is no such request.
C10_OtherOriginsNeverReflected ==
  [][\A o \in Origins \ allowedOrigins :
       /\ (resp'.acao # NoHeader /\ pending' = pending) =>
            \A ip \in IPs : ~AnswersAs(ip, o)
       /\ (resp'.acao # NoHeader /\ pending' # pending) => ~AnswersLater(o)
       /\ (pending'[1].acao # NoHeader /\ pending' # pending) =>
            \A ip \in IPs : ~Suspends(ip, o)]_vars

\* C10 witness: a request with a foreign Origin header has passed the CORS
\* check and waits for its upstream call, to be answered without the header
C10_Witness ==
  /\ pending[1].pc = "fetch"
  /\ pending[1].origin = "https://evil.example"
  /\ pending[1].acao = NoHeader
  /\ resp.from = "status"

-----------------------------------------------------------------------------
(* The /api/quotes route: claim C11, under SpecHttp *)

\* the keys of the cache: the symbols it holds an entry for
CacheKeys == { s \in Symbols : quoteCache.data[s] # NoEntry }

\* a step in which the route handler of /api/quotes runs
QuotesArrives ==
  /\ \E o \in Origins : QuotesRequest(Burst, Client, o)
  /\ store'.hits[Client] <= max

\* C11: the data mapping of a GET /api/quotes response has exactly the key
\* set of the cache's current entries, fresh and stale alike, and maps each key
\* to the stored payload of its entry; the request changes neither the cache
\* nor lastUpdated, which the response reports too.
C11_QuotesMirrorsCache ==
  [][QuotesArrives =>
       /\ resp'.status = 200
       /\ DOMAIN resp'.body.data = CacheKeys
       /\ \A s \in CacheKeys : resp'.body.data[s] = quoteCache.data[s].data
       /\ resp'.body.lastUpdated = quoteCache.lastUpdated
       /\ quoteCache' = quoteCache]_vars

\* C11 witness: a response of /api/quotes that lists an entry which is stale
C11_Witness ==
  /\ resp.from = "quotes"
  /\ CacheKeys # {}
  /\ DOMAIN resp.body.data = CacheKeys
  /\ \A s \in CacheKeys : now - quoteCache.data[s].timestamp >= CACHE_TTL_MS

-----------------------------------------------------------------------------
(* The pacing of a pass: claim C12, under Spec *)

\* pass p starts the upstream call of its next symbol in this step
NextCall(p) == passes[p].pc # "idle" /\ passes'[p].i = passes[p].i + 1

\* the fetch of pass p returns in this step, with a payload or without
FetchReturns(p) == passes[p].pc = "fetch" /\ passes'[p] # passes[p]

\* C12: within one pass, a delay of 1.5 seconds follows the fetch of each
\* symbol, failed or not, before the fetch of the next symbol: when a fetch
\* returns the pass waits until 1500 ms later, and two consecutive upstream
\* calls of a pass start at least 1500 ms apart.
C12_DelayBetweenCalls ==
  [][\A p \in PassSlots :
       /\ FetchReturns(p) =>
            /\ passes'[p].pc = "delay"
            /\ passes'[p].due = now + 1500
       /\ NextCall(p) =>
            /\ passes[p].pc = "delay"
            /\ now >= passes[p].due
            /\ now - passes[p].calledAt >= 1500
            /\ passes'[p].calledAt = now]_vars

\* C12 witness: a pass whose first fetch failed has started its second
\* upstream call, 1.5 seconds or more after the first
C12_Witness ==
  \E p \in PassSlots :
    /\ passes[p].pc = "fetch"
    /\ passes[p].i = 2
    /\ MONITORED_STOCKS[1] \in passes[p].failed
    /\ passes[p].calledAt - passes[p].started >= DELAY_MS

-----------------------------------------------------------------------------
(* The scheduler: claim C13, under Spec *)

\* a pass starts in slot p in this step, and no other pass changes
PassStarts(p) ==
  /\ passes[p].pc = "idle"
  /\ passes'[p].pc = "fetch"
  /\ passes'[p].i = 1
  /\ passes'[p].started = now
  /\ \A q \in PassSlots \ {p} : passes'[q] = passes[q]

\* the passes in flight
Running == { p \in PassSlots : passes[p].pc # "idle" }

\* C13: a pass starts at once when the server starts listening, and one more
\* at every tick of the 3-minute interval, which is armed anew at each tick
\* and never passed over, and at no other time; a tick starts its pass whether
\* or not an earlier pass is still running (as long as the model has a slot
\* left for it), so two passes can be in flight at once.
C13_PassAtStartAndEveryTick ==
  [][/\ (~listening /\ listening') =>
          /\ \E p \in PassSlots : PassStarts(p)
          /\ nextTick' = now + 180000
     /\ (listening /\ nextTick' # nextTick) =>
          /\ now = nextTick
          /\ nextTick' = nextTick + 180000
          /\ \E p \in PassSlots : PassStarts(p)
     /\ (listening /\ passes' # passes /\ nextTick' = nextTick) =>
          \A p \in PassSlots : passes[p].pc = "idle" => passes'[p].pc = "idle"
     /\ listening => now' <= nextTick
     /\ (listening /\ now = nextTick /\ FreePassSlots # {}) => ENABLED IntervalFire]_vars

\* C13 witness: two passes in flight, the second started by the tick 3
\* minutes after the first, which is still waiting for its upstream call
C13_Witness ==
  \E p, q \in PassSlots :
    /\ passes[p].pc = "fetch"
    /\ passes[q].pc # "idle"
    /\ passes[q].started = passes[p].started + INTERVAL_MS

-----------------------------------------------------------------------------
(* Upstream calls that never return: claim C14, under SpecHung *)

\* the passes and the handlers that wait for an upstream call
WaitingPasses == { p \in PassSlots : passes[p].pc = "fetch" }
WaitingRequests == { r \in RaceSlots : pending[r].pc = "fetch" }

\* a step in which a request of the client is answered or suspended
ClientRequest ==
  \/ QuoteRequest(HungRequests, RaceSlots, Client, Browser, Raced)
  \/ QuotesRequest(HungRequests, Client, Browser)
  \/ StatusRequest(HungRequests, Client, Browser)

\* C14: an upstream call that does not return stalls only its own task.
\* While a pass or an on-demand request waits for its call, a request to
\* /api/quotes, /api/status or /api/quote that arrives is handled at once (the
\* last one needing a free slot of the model when it has to call upstream), a
\* due tick starts its pass, every other pass and handler goes on when its own
\* timer or call returns, and none of these steps touches the waiting task.
C14_HungCallStallsOnlyItsTask ==
  [][(listening /\ WaitingPasses \cup WaitingRequests # {}) =>
       /\ store.hits[Client] < HungRequests =>
            /\ ENABLED QuotesRequest(HungRequests, Client, Browser)
            /\ ENABLED StatusRequest(HungRequests, Client, Browser)
            /\ (Fresh(Raced) \/ FreeReqSlots(RaceSlots) # {}) =>
                 ENABLED QuoteRequest(HungRequests, RaceSlots, Client, Browser, Raced)
       /\ (now = nextTick /\ FreePassSlots # {}) => ENABLED IntervalFire
       /\ \A q \in PassSlots :
            /\ (passes[q].pc = "delay" /\ now >= passes[q].due) => ENABLED PassDelayDone(q)
            /\ passes[q].pc = "fetch" =>
                 ENABLED PassFetchReturn(q, [ok |-> FALSE, data |-> Null])
       /\ \A r \in WaitingRequests :
            ENABLED QuoteFetchReturn(r, [ok |-> FALSE, data |-> Null])
       /\ ClientRequest =>
            /\ passes' = passes
            /\ \A r \in WaitingRequests : pending'[r] = pending[r]
       /\ \A p \in WaitingPasses :
            passes'[p] # passes[p] => \A q \in PassSlots \ {p} : passes'[q] = passes[q]]_vars

\* C14 witness: the initial pass still waits for its first upstream call and
\* an on-demand request for its own, while the pass of the next tick has
\* completed and an on-demand request that arrived earlier has been answered
C14_Witness ==
  /\ passes[1].pc = "fetch"
  /\ passes[1].started = 0
  /\ quoteCache.lastUpdated > INTERVAL_MS
  /\ pending[2].pc = "fetch"
  /\ pending[1].pc = "idle"
  /\ resp.from = "upstream"

-----------------------------------------------------------------------------
(* lastUpdated: claim C15, under Spec *)

\* C15: lastUpdated is 0 until the first pass completes and from then on the
\* completion time of the pass that completed last: it changes only in the
\* step that ends a pass, every pass that ends sets it to the current time,
\* also when all its fetches failed, it never decreases, and no step of an
\* /api/quote handler changes it.
C15_LastUpdatedIsLastCompletion ==
  [][/\ ~listening => quoteCache.lastUpdated = 0
     /\ quoteCache'.lastUpdated # quoteCache.lastUpdated => \E p \in PassSlots : Completes(p)
     /\ \A p \in PassSlots : Completes(p) => quoteCache'.lastUpdated = now
     /\ quoteCache'.lastUpdated >= quoteCache.lastUpdated
     /\ (pending' # pending \/ resp' # resp) =>
          quoteCache'.lastUpdated = quoteCache.lastUpdated]_vars

\* C15 witness: lastUpdated was set by a pass all of whose fetches failed,
\* and is not the time of the one write made, by an on-demand request
C15_Witness ==
  /\ quoteCache.lastUpdated > 0
  /\ \A s \in Monitored : quoteCache.data[s] = NoEntry
  /\ quoteCache.data[Unmonitored] # NoEntry
  /\ quoteCache.data[Unmonitored].timestamp # quoteCache.lastUpdated

-----------------------------------------------------------------------------
(* Same-key races: claim C16, under SpecHung *)

\* the symbol pass p is fetching
Fetching(p) == MONITORED_STOCKS[passes[p].i]

\* two handlers of /api/quote wait for an upstream call for the same symbol
OnDemandPairRaces ==
  \E r1, r2 \in WaitingRequests : r1 # r2 /\ pending[r1].symbol = pending[r2].symbol

\* two passes wait for an upstream call for the same symbol
PassPairRaces ==
  \E p, q \in WaitingPasses : p # q /\ Fetching(p) = Fetching(q)

\* a handler of /api/quote and a pass wait for an upstream call for the same symbol
OnDemandRacesPass ==
  \E r \in WaitingRequests : \E p \in WaitingPasses : pending[r].symbol = Fetching(p)

\* C16, as claimed: two tasks have a fetch-then-write for the same symbol in
\* flight together only when one is an on-demand request and the other the
\* refresher; no two on-demand requests and no two passes race on one key.
C16_OnlyOnDemandRacesRefresher == ~OnDemandPairRaces /\ ~PassPairRaces

\* C16, amended: any two of the tasks that fetch can race on one key: an
\* on-demand request and a pass, two on-demand requests, or two passes.  What
\* limits the races is that a handler calls upstream only when it found no
\* entry younger than 3 minutes, that two passes in flight were started by
\* different ticks, 3 minutes or more apart, each with one call in flight at a
\* time, and that /api/quotes and /api/status start no call and write nothing.
C16_RacesAmongAllFetchers ==
  [][/\ \A r \in RaceSlots :
          (pending[r].pc = "idle" /\ pending'[r].pc = "fetch") =>
             /\ ~YoungEntry(pending'[r].symbol)
             /\ pending'[r].url = pending'[r].symbol
     /\ \A p, q \in Running :
          p # q => \/ passes[p].started - passes[q].started >= 180000
                   \/ passes[q].started - passes[p].started >= 180000
     /\ \A p \in Running : Len(passes[p].calls) = passes[p].i
     /\ (QuotesRequest(HungRequests, Client, Browser) \/ StatusRequest(HungRequests, Client, Browser)) =>
          /\ pending' = pending
          /\ passes' = passes
          /\ quoteCache' = quoteCache]_vars

\* C16 witness: two on-demand requests and two passes all wait for an
\* upstream call for the same symbol
C16_Witness ==
  /\ OnDemandPairRaces
  /\ PassPairRaces
  /\ OnDemandRacesPass
  /\ \A r \in {1, 2} : pending[r].pc = "fetch" /\ pending[r].symbol = Raced
  /\ \A p \in {1, 2} : passes[p].pc = "fetch" /\ Fetching(p) = Raced

-----------------------------------------------------------------------------
(* Last write wins: claim C17, under SpecHung *)

\* a step in which a task writes payload d under symbol s: a pass or a handler
\* of /api/quote whose upstream call for s returned d
Writes(s, d) ==
  \/ \E p \in WaitingPasses :
       Fetching(p) = s /\ PassFetchReturn(p, [ok |-> TRUE, data |-> d])
  \/ \E r \in WaitingRequests :
       pending[r].symbol = s /\ QuoteFetchReturn(r, [ok |-> TRUE, data |-> d])

\* the payloads the upstream returns for s under SpecHung
Returned(s) == { Payload(s, c) : c \in Prices }

\* C17: the last write wins.  Every write of a task whose fetch of s
\* succeeded replaces the entry of s as a whole, by the payload of that task
\* with the time of that write, whatever entry another task wrote before and
\* whatever tasks still have a fetch of s in flight, and leaves every other
\* entry as it is; an entry changes in no other way, so it never pairs the
\* payload of one write with the timestamp of another.
C17_LastWriteWins ==
  [][\A s \in Symbols :
       /\ \A d \in Returned(s) :
            Writes(s, d) =>
              /\ quoteCache'.data[s] = [data |-> d, timestamp |-> now]
              /\ \A x \in Symbols \ {s} : quoteCache'.data[x] = quoteCache.data[x]
       /\ quoteCache'.data[s] # quoteCache.data[s] =>
            \E d \in Returned(s) :
              Writes(s, d) /\ quoteCache'.data[s] = [data |-> d, timestamp |-> now]]_vars

\* C17 witness: a pass and an on-demand request fetched the same symbol
\* together and both succeeded; the entry is the one of the handler, which
\* wrote last, and no longer the one the pass wrote
C17_Witness ==
  \E p \in Running : \E w \in passes[p].wrote :
    /\ w.symbol = Raced
    /\ w.data = Payload(Raced, 150)
    /\ quoteCache.data[Raced].data = Payload(Raced, 151)
    /\ quoteCache.data[Raced].timestamp >= w.timestamp
    /\ resp = Response(200, Payload(Raced, 151), Browser, "upstream")

-----------------------------------------------------------------------------
(* Entries are never deleted: claim C18, under Spec *)

\* a step in which the fetch of pass p for symbol s succeeds
PassFetched(p, s) ==
  /\ passes[p].pc = "fetch"
  /\ MONITORED_STOCKS[passes[p].i] = s
  /\ passes'[p].pc = "delay"
  /\ passes'[p].wrote # passes[p].wrote

\* a step in which the fetch of the handler in slot r for symbol s succeeds
HandlerFetched(r, s) ==
  /\ pending[r].pc = "fetch"
  /\ pending[r].symbol = s
  /\ pending'[r].pc = "idle"
  /\ resp'.status = 200

\* C18: cache entries are never deleted.  In every step the key set of the
\* cache stays or grows, and the entry of a symbol changes only when a fetch
\* for that symbol, by a pass or by a handler of /api/quote, succeeded in that
\* step, and then to an entry that holds a payload and the current time; a
\* failed fetch, an expiry and a read change nothing.
C18_EntriesNeverDeleted ==
  [][/\ CacheKeys \subseteq CacheKeys'
     /\ \A s \in Symbols :
          quoteCache'.data[s] # quoteCache.data[s] =>
            /\ Truthy(quoteCache'.data[s].data)
            /\ quoteCache'.data[s].timestamp = now
            /\ \/ \E p \in PassSlots : PassFetched(p, s)
               \/ \E r \in ReqSlots : HandlerFetched(r, s)]_vars

\* C18 witness: a pass has failed to fetch a symbol whose entry, written by
\* an earlier pass and stale by now, is still in the cache
C18_Witness ==
  \E p \in PassSlots :
    /\ MONITORED_STOCKS[1] \in passes[p].failed
    /\ quoteCache.data[MONITORED_STOCKS[1]] # NoEntry
    /\ quoteCache.data[MONITORED_STOCKS[1]].timestamp < passes[p].started
    /\ now - quoteCache.data[MONITORED_STOCKS[1]].timestamp >= CACHE_TTL_MS

-----------------------------------------------------------------------------
(* What the cache holds: claim C19, under Spec *)

\* C19: every cache entry stored under symbol s holds a payload the upstream
\* returned for a call made for s, as returned (never the payload of another
\* symbol, never an absent or empty result), with a timestamp that is not
\* later than the current time.
C19_EntriesHoldUpstreamPayloads ==
  \A s \in Symbols :
    quoteCache.data[s] # NoEntry =>
      /\ quoteCache.data[s].data \in { Payload(s, c) : c \in Prices }
      /\ quoteCache.data[s].timestamp >= 0
      /\ quoteCache.data[s].timestamp <= now

\* C19 witness: the cache holds an entry a pass wrote and an entry a handler
\* wrote, each with the payload of its own symbol, one of them in the past,
\* beside a symbol whose fetch failed
C19_Witness ==
  /\ quoteCache.data[MONITORED_STOCKS[1]] = NoEntry
  /\ quoteCache.data[MONITORED_STOCKS[2]].data = Payload(MONITORED_STOCKS[2], 150)
  /\ quoteCache.data[Unmonitored].data = Payload(Unmonitored, 151)
  /\ quoteCache.data[Unmonitored].timestamp < now

-----------------------------------------------------------------------------
(* One call and one response for each request: claim C20, under SpecReturns *)

\* the handler in slot r is suspended on its upstream call in this step
SuspendsIn(r) == pending[r].pc = "idle" /\ pending'[r] # pending[r]

\* the handler in slot r resumes in this step
ResumesIn(r) == pending[r].pc # "idle" /\ pending'[r] # pending[r]

\* C20: every GET /api/quote request that reaches its handler makes at most
\* one upstream call and gets exactly one response: it is either answered in
\* the step in which it arrives, without a call, or suspended on one call and
\* answered, once, in the step in which that call returns, after which its
\* handler is gone; and a suspended request is answered in the end if its
\* call returns in the end.
C20_OneCallOneResponse ==
  /\ [][/\ QuoteRequest(HungRequests, RaceSlots, Client, Browser, Raced) =>
             \/ /\ pending' = pending
                /\ resp'.from \in {"handler", "cache"}
             \/ /\ resp' = resp
                /\ \E r \in RaceSlots :
                     /\ SuspendsIn(r)
                     /\ pending'[r].pc = "fetch"
                     /\ pending'[r].url = Raced
                     /\ \A x \in RaceSlots \ {r} : pending'[x] = pending[x]
        /\ \A r \in RaceSlots :
             ResumesIn(r) =>
               /\ pending[r].pc = "fetch"
               /\ pending'[r] = IdleReq
               /\ resp'.from = "upstream"
               /\ resp'.status \in {200, 404, 500}
               /\ \A x \in RaceSlots \ {r} : pending'[x] = pending[x]]_vars
  /\ \A r \in RaceSlots : (pending[r].pc = "fetch") ~> (pending[r].pc = "idle")

\* C20 witness: every request the client sent has been answered, the last
\* one after its upstream call failed while another handler was suspended too
C20_Witness ==
  /\ store.hits[Client] = HungRequests
  /\ WaitingRequests = {}
  /\ resp = Response(404, ErrorBody("Symbol data not available"), Browser, "upstream")
  /\ quoteCache.data[Raced].data = Payload(Raced, 151)
  /\ quoteCache.data[Raced].timestamp = 0

====
